---- MODULE Spec2Model ----
(***************************************************************************)
(* The BITS packet decoder of day16/src/main.rs as a state machine.        *)
(*                                                                         *)
(* parse_packet is a recursive descent over a bit string.  The recursion   *)
(* is modelled by an explicit call stack: one frame per running call of    *)
(* parse_packet, ValuePacket::new or OperatorPacket::new.  Every &str      *)
(* slice the code takes is a suffix of the root input, so a frame keeps    *)
(* the absolute offset `off` at which its own `raw`/`input` slice starts   *)
(* and the code's local indices are added to it.                           *)
(*                                                                         *)
(* The input is an arbitrary bit string.  `bits` holds the prefix of it    *)
(* the decoder has indexed so far; the rest is undetermined until a slice  *)
(* reaches it (action Feed) or the input is found to end (action Close),   *)
(* so one behaviour stands for every input that has this prefix.           *)
(***************************************************************************)
EXTENDS Integers, Sequences, FiniteSets, TLC

\* ------------------------------------------------------------- bounds
\* longest input, in bits
MaxBits == 51
\* most 5-bit groups the input gives one literal
MaxGroups == 3
\* largest 11-bit sub-packet count the input declares
MaxCount == 3
\* longest text of input.txt, in characters, beside the texts of the tests
MaxHexLen == 3
\* most 5-bit groups the input gives one long literal
MaxLongGroups == 17
\* a long literal the input carries has a payload of at most this many
\* significant bits, or of more than usize has
MaxSmallBits == 28
\* most 5-bit groups the input gives a literal whose value is multiplied
MaxWideGroups == 7
\* longest input, in bits, of the runs that are followed to their end
MaxFairBits == 51
\* longest input, in bits, of the runs with nested operators
MaxNestBits == 55

\* the field values the input is drawn from: <<version, type id>> of a
\* header, the low four bits of a literal group, and the 15-bit total
Headers ==
  {<<6, 4>>, <<1, 4>>, <<1, 0>>, <<6, 1>>, <<1, 2>>, <<6, 3>>, <<1, 5>>,
   <<6, 6>>, <<1, 7>>}
Nibbles == {<<0, 0, 0, 1>>, <<1, 0, 1, 0>>}
TotalChoices == {0, 10, 11, 27}

\* width of usize on the 64-bit targets the crate is built for
UsizeBits == 64

\* ------------------------------------------------------------ helpers
Max(a, b) == IF a >= b THEN a ELSE b

RECURSIVE Zeros(_)
Zeros(n) == IF n <= 0 THEN <<>> ELSE <<0>> \o Zeros(n - 1)

\* the w-bit big-endian pattern of n, as the input carries a field
RECURSIVE Encode(_, _)
Encode(n, w) == IF w = 0 THEN <<>> ELSE Encode(n \div 2, w - 1) \o <<n % 2>>

VARIABLES
  input,   \* the text of input.txt, one character per element
  bits,    \* prefix of the input bit string indexed so far (sequence of 0/1)
  eof,     \* TRUE once the input is known to end at Len(bits)
  stack,   \* call stack of the recursive descent, innermost call last
  packet,  \* main's `packet`: the root Packet once parse_packet has returned
  calls,   \* log of the parse_packet calls that returned, in order of return
  pc,      \* main's position: "parse", "p1", "p2", "done", "panic"
  panic,   \* the panic that aborted the run, or "none"
  out,     \* the lines main has printed
  sea_floor,  \* day 25: the SeaFloor (current, history, width, depth)
  cucumbers,  \* day 25: the locals of the running SeaFloor::next_step
  octopuses   \* day 11: the argument, locals and result of next_step

\* the state of the two other programs
others == <<sea_floor, cucumbers, octopuses>>

vars == <<input, bits, eof, stack, packet, calls, pc, panic, out, others>>

NoPacket == [tag |-> "None"]

\* ------------------------------------------------------ binary_to_usize
\* value of a big-endian bit string
RECURSIVE BitsValue(_)
BitsValue(b) ==
  IF b = <<>> THEN 0 ELSE 2 * BitsValue(SubSeq(b, 1, Len(b) - 1)) + b[Len(b)]

\* the bit string without its leading zeros
RECURSIVE Significant(_)
Significant(b) ==
  IF b = <<>> \/ b[1] = 1 THEN b ELSE Significant(SubSeq(b, 2, Len(b)))

\* usize::from_str_radix(b, 2) is Ok: b is not empty and fits usize
FromStrRadixOk(b) == b # <<>> /\ Len(Significant(b)) <= UsizeBits

\* binary_to_usize(b) where from_str_radix is Ok
binary_to_usize(b) == BitsValue(b)

\* a Result: Ok(value), or Err(kind) that panics where it is unwrapped
Ok(v) == [ok |-> TRUE, v |-> v]
Err(kind) == [ok |-> FALSE, err |-> kind]

\* the last UsizeBits bits of b
LowBits(b) ==
  IF Len(b) <= UsizeBits THEN b ELSE SubSeq(b, Len(b) - UsizeBits + 1, Len(b))
\* usize::from_str_radix(b, 2) (line 190)
from_str_radixWrapping(b) == Ok(BitsValue(LowBits(b)))
from_str_radix(b) ==
  IF FromStrRadixOk(b) THEN Ok(binary_to_usize(b)) ELSE Err("ParseIntError")

\* ----------------------------------------------------------- OpType
\* impl From<usize> for OpType (lines 56-70)
OpTypeFromSwapped(u) ==
  CASE u = 0 -> "Sum"
    [] u = 1 -> "Product"
    [] u = 2 -> "Minimum"
    [] u = 3 -> "Maximum"
    [] u = 4 -> "Value"
    [] u = 5 -> "LessThan"
    [] u = 6 -> "GreaterThan"
    [] u = 7 -> "EqualTo"
OpTypeFrom(u) ==
  CASE u = 0 -> "Sum"
    [] u = 1 -> "Product"
    [] u = 2 -> "Minimum"
    [] u = 3 -> "Maximum"
    [] u = 4 -> "Value"
    [] u = 5 -> "GreaterThan"
    [] u = 6 -> "LessThan"
    [] u = 7 -> "EqualTo"

\* ----------------------------------------------------------- Packet
ValuePacket(version, value, len) ==
  [tag |-> "Value", version |-> version, value |-> value, len |-> len]

OperatorPacket(version, op_type, sub_packets, len) ==
  [tag |-> "Operator", version |-> version, op_type |-> op_type,
   sub_packets |-> sub_packets, len |-> len]

\* Packet::len
PacketLen(p) == p.len

\* ------------------------------------------------------------ slices
\* &s[lo..hi] of the root input, lo and hi absolute (0-based, hi exclusive),
\* where hi <= Len(bits)
Slice(lo, hi) == SubSeq(bits, lo + 1, hi)

\* ------------------------------------------------------------ frames
\* `from`: absolute offset of the parse_packet input this call belongs to;
\* `rd`: end of the highest slice this call (or a call below it) has taken.
ParseFrame(off) ==
  [fn |-> "parse_packet", from |-> off, off |-> off, rd |-> off]

ValueFrame(version, from, rd) ==
  [fn |-> "ValuePacket::new", from |-> from, off |-> from + 6, rd |-> rd,
   version |-> version, i |-> 0, value_raw |-> <<>>, at |-> "loop"]

OperatorFrame(version, op_type, from, rd) ==
  [fn |-> "OperatorPacket::new", from |-> from, off |-> from + 6, rd |-> rd,
   version |-> version, op_type |-> op_type, at |-> "new",
   length_type_id |-> 0, declared |-> 0, k |-> 0,
   sub_packages_length_counter |-> 0, start |-> 0, total_size |-> 1,
   sub_packets |-> <<>>, starts |-> <<>>]

Top == stack[Len(stack)]
Running == pc = "parse" /\ stack # <<>>

\* the slice the innermost call takes next: [field, lo, hi], absolute
Pending ==
  LET f == Top IN
  CASE f.fn = "parse_packet" ->
         [field |-> "header", lo |-> f.off, hi |-> f.off + 6]
    [] f.fn = "ValuePacket::new" /\ f.at = "loop" ->
         [field |-> "group", lo |-> f.off + f.i * 5, hi |-> f.off + f.i * 5 + 5]
    [] f.fn = "OperatorPacket::new" /\ f.at = "new" ->
         [field |-> "length_type_id", lo |-> f.off, hi |-> f.off + 1]
    [] f.fn = "OperatorPacket::new" /\ f.at = "length" /\ f.length_type_id = 1 ->
         [field |-> "count", lo |-> f.off + 1, hi |-> f.off + 12]
    [] f.fn = "OperatorPacket::new" /\ f.at = "length" /\ f.length_type_id = 0 ->
         [field |-> "total", lo |-> f.off + 1, hi |-> f.off + 16]
    [] OTHER -> [field |-> "none", lo |-> 0, hi |-> 0]

\* the slice is inside the input as far as it is known
InRange(hi) == hi <= Len(bits)
OutOfRangeUnnoticed(hi) == FALSE
\* taking the slice panics: the input ends before hi
OutOfRange(hi) == hi > Len(bits) /\ eof

\* a panic unwinds main: nothing is returned and nothing more runs
PanicYieldsDefault(kind) ==
  /\ pc' = "p1"
  /\ packet' = ValuePacket(0, 0, 6)
  /\ stack' = <<>>
  /\ UNCHANGED <<others, input, bits, eof, calls, panic, out>>
Panic(kind) ==
  /\ pc' = "panic"
  /\ panic' = kind
  /\ UNCHANGED <<others, input, bits, eof, stack, packet, calls, out>>

\* ------------------------------------------------------------- input
\* the values the input may carry in the field the decoder slices next
FieldChoices(field) ==
  CASE field = "header" ->
         {Encode(h[1], 3) \o Encode(h[2], 3) : h \in Headers}
    [] field = "group" ->
         {<<c>> \o n : c \in (IF Top.i + 1 >= MaxGroups THEN {0} ELSE {0, 1}),
                       n \in Nibbles}
    [] field = "length_type_id" -> {<<0>>, <<1>>}
    [] field = "count" -> {Encode(n, 11) : n \in 0..MaxCount}
    [] field = "total" -> {Encode(t, 15) : t \in TotalChoices}
    [] OTHER -> {}

\* the bits that extend the known input up to p.hi when its field holds tok
NewBits(p, tok) ==
  IF p.lo >= Len(bits)
  THEN Zeros(p.lo - Len(bits)) \o tok
  ELSE SubSeq(tok, Len(bits) - p.lo + 1, Len(tok))

\* the input goes on: the bits the pending slice reaches become known
Feed ==
  /\ Running /\ ~eof
  /\ Pending.hi > Len(bits) /\ Pending.hi <= MaxBits
  /\ \E tok \in FieldChoices(Pending.field) :
       bits' = bits \o NewBits(Pending, tok)
  /\ UNCHANGED <<others, input, eof, stack, packet, calls, pc, panic, out>>

\* the input goes on, drawn from fewer values: literals of one or two
\* groups, Sum operators, counts up to 2 and totals that a literal meets
\* or overshoots
ShortChoices(field) ==
  CASE field = "header" -> {Encode(1, 3) \o Encode(t, 3) : t \in {4, 0}}
    [] field = "group" ->
         {<<c, 0, 0, 0, 1>> : c \in (IF Top.i + 1 >= 2 THEN {0} ELSE {0, 1})}
    [] field = "length_type_id" -> {<<0>>, <<1>>}
    [] field = "count" -> {Encode(n, 11) : n \in 0..2}
    [] field = "total" -> {Encode(t, 15) : t \in {0, 10, 11}}
    [] OTHER -> {}
FeedShort ==
  /\ Running /\ ~eof
  /\ Pending.hi > Len(bits) /\ Pending.hi <= MaxFairBits
  /\ \E tok \in ShortChoices(Pending.field) :
       bits' = bits \o NewBits(Pending, tok)
  /\ UNCHANGED <<others, input, eof, stack, packet, calls, pc, panic, out>>

\* the input goes on, drawn from the values that nest operators: literals
\* of one group, Sum operators, counts up to 1 and totals that are 0 or
\* hold a literal, an empty operator, or an operator that holds a literal
NestChoices(field) ==
  CASE field = "header" -> {Encode(v, 3) \o Encode(t, 3) : v \in {1}, t \in {4, 0}}
    [] field = "group" -> {<<0>> \o n : n \in Nibbles}
    [] field = "length_type_id" -> {<<0>>, <<1>>}
    [] field = "count" -> {Encode(n, 11) : n \in 0..1}
    [] field = "total" -> {Encode(t, 15) : t \in {0, 11, 22, 33}}
    [] OTHER -> {}
FeedNest ==
  /\ Running /\ ~eof
  /\ Pending.hi > Len(bits) /\ Pending.hi <= MaxNestBits
  /\ \E tok \in NestChoices(Pending.field) :
       bits' = bits \o NewBits(Pending, tok)
  /\ UNCHANGED <<others, input, eof, stack, packet, calls, pc, panic, out>>

\* the input ends before the pending slice does: right here, or one bit short
Close ==
  /\ Running /\ ~eof
  /\ Pending.hi > Len(bits)
  /\ \E tok \in FieldChoices(Pending.field) :
       \E n \in {0, Pending.hi - Len(bits) - 1} :
         /\ Len(bits) + n <= MaxBits
         /\ bits' = bits \o SubSeq(NewBits(Pending, tok), 1, n)
  /\ eof' = TRUE
  /\ UNCHANGED <<others, input, stack, packet, calls, pc, panic, out>>

\* ------------------------------------------------- ValuePacket::new
\* start and end of the i-th group in raw (lines 16-17)
GroupStart(i) == i * 5
GroupEnd(i) == i * 5 + 5
\* &v[1..5] (line 24)
GroupPayloadShifted(v) == SubSeq(v, 1, 4)
GroupPayload(v) == SubSeq(v, 2, 5)
\* &v[0..1] == "0" (line 28)
LastGroupOnOne(v) == SubSeq(v, 1, 1) = <<1>>
LastGroup(v) == SubSeq(v, 1, 1) = <<0>>
\* value_raw.join("") (line 33)
RECURSIVE Join(_)
Join(parts) == IF parts = <<>> THEN <<>> ELSE Head(parts) \o Join(Tail(parts))
\* len (line 34)
ValueLenShort(i) == i * 5 + 5
ValueLen(i) == i * 5 + 6

\* the next group of a long literal: the payload is zeros with at most one
\* set bit, and the literal may end where the payload is small or is
\* wider than usize
LongGroupChoices(f) ==
  LET g == f.i + 1
      sig(n) == Len(Significant(Join(Append(f.value_raw, n))))
      stop(n) == sig(n) <= MaxSmallBits \/ sig(n) > UsizeBits
      go(n) ==
        /\ g < MaxLongGroups
        /\ \/ sig(n) = 0
           \/ sig(n) + 4 <= MaxSmallBits
           \/ sig(n) + 4 * (MaxLongGroups - g) > UsizeBits
      nibbles ==
        IF Significant(Join(f.value_raw)) = <<>>
        THEN {<<0, 0, 0, 0>>, <<0, 0, 0, 1>>}
        ELSE {<<0, 0, 0, 0>>}
  IN {tok \in {<<c>> \o n : c \in {0, 1}, n \in nibbles} :
        IF tok[1] = 0 THEN stop(SubSeq(tok, 2, 5)) ELSE go(SubSeq(tok, 2, 5))}

\* the input is one literal and goes on: its header or its next group
FeedLong ==
  /\ Running /\ ~eof
  /\ Pending.hi > Len(bits)
  /\ \E tok \in (IF Pending.field = "header"
                  THEN {Encode(v, 3) \o Encode(4, 3) : v \in {1, 6}}
                  ELSE LongGroupChoices(Top)) :
       bits' = bits \o NewBits(Pending, tok)
  /\ UNCHANGED <<others, input, eof, stack, packet, calls, pc, panic, out>>

\* the next field of an input that is a Sum or a Product of one or three
\* literals, each of them 0 or the largest power of 16 that MaxWideGroups
\* groups hold
WideChoices(field, f) ==
  CASE field = "header" ->
         IF f.from = 0
         THEN {Encode(1, 3) \o Encode(t, 3) : t \in {0, 1}}
         ELSE {Encode(6, 3) \o Encode(4, 3)}
    [] field = "length_type_id" -> {<<1>>}
    [] field = "count" -> {Encode(n, 11) : n \in {1, 3}}
    [] field = "group" ->
         LET lead == f.value_raw # <<>> /\ Head(f.value_raw) = <<0, 0, 0, 1>>
             last == f.i + 1 = MaxWideGroups
         IN {<<c>> \o n :
               c \in (IF last THEN {0} ELSE IF lead THEN {1} ELSE {0, 1}),
               n \in (IF f.i = 0 THEN {<<0, 0, 0, 0>>, <<0, 0, 0, 1>>}
                      ELSE {<<0, 0, 0, 0>>})}
            \ {<<0, 0, 0, 0, 1>>}
    [] OTHER -> {}

\* the input goes on with the next field of such an operator
FeedWide ==
  /\ Running /\ ~eof
  /\ Pending.hi > Len(bits)
  /\ \E tok \in WideChoices(Pending.field, Top) :
       bits' = bits \o NewBits(Pending, tok)
  /\ UNCHANGED <<others, input, eof, stack, packet, calls, pc, panic, out>>

\* ---------------------------------------------- OperatorPacket::new
\* end in raw of the length field, where the first sub-packet starts
\* (lines 88-90, 101-104)
LengthEnd(length_type_id) == IF length_type_id = 1 THEN 12 ELSE 16
\* total_size after the length field (lines 84, 89, 102)
HeaderSizeCountOnly(length_type_id) == 1 + 11
HeaderSize(length_type_id) == IF length_type_id = 1 THEN 1 + 11 ELSE 1 + 15
\* for _ in 0..number_sub_packets (line 91)
Continue1Inclusive(k, number_sub_packets) == k <= number_sub_packets
Continue1(k, number_sub_packets) == k < number_sub_packets
\* while sub_packets_length != sub_packages_length_counter (line 106)
Continue0Below(sub_packets_length, sub_packages_length_counter) ==
  sub_packages_length_counter < sub_packets_length
Continue0(sub_packets_length, sub_packages_length_counter) ==
  sub_packets_length # sub_packages_length_counter
\* start += packet.len() (lines 95, 109)
NextStartAssign(start, len) == len
NextStart(start, len) == start + len
\* &raw[start..] (lines 93, 108): where in the root input the slice begins
\* that parse_packet is handed, raw beginning at off
SubInputWhole(off, start) == off
SubInput(off, start) == off + start
\* len (line 119)
OperatorLenNoHeader(total_size) == total_size
OperatorLen(total_size) == total_size + 6

\* the loop body after parse_packet has returned p (lines 94-97, 109-113);
\* rd is the end of the highest slice that call took
AcceptSub(f, p, rd) ==
  [f EXCEPT !.total_size = @ + PacketLen(p),
            !.start = NextStart(@, PacketLen(p)),
            !.sub_packages_length_counter =
               IF f.length_type_id = 0 THEN @ + PacketLen(p) ELSE @,
            !.k = IF f.length_type_id = 1 THEN @ + 1 ELSE @,
            !.sub_packets = Append(@, p),
            !.rd = Max(@, rd)]

\* the call of frame f returns packet p to its caller
Return(p, f) ==
  LET rest == SubSeq(stack, 1, Len(stack) - 1) IN
  /\ calls' = Append(calls, [from |-> f.from, rd |-> f.rd, packet |-> p])
  /\ IF rest = <<>>
     THEN stack' = <<>> /\ packet' = p /\ pc' = "p1"
     ELSE /\ stack' = [rest EXCEPT ![Len(rest)] = AcceptSub(@, p, f.rd)]
          /\ UNCHANGED <<packet, pc>>
  /\ UNCHANGED <<others, input, bits, eof, panic, out>>

\* &s[0..3] (line 194), s beginning at off in the root input
VersionFieldWide(off) == Slice(off, off + 4)
VersionField(off) == Slice(off, off + 3)

\* op_type == OpType::Value (line 198)
IsValueNever(op_type) == FALSE
IsValue(op_type) == op_type = "Value"

\* ----------------------------------------------------------- actions
\* parse_packet: version, type id, and the call it dispatches to
ParsePacket ==
  /\ Running /\ Top.fn = "parse_packet"
  /\ LET f == Top
         hi == f.off + 6
     IN \/ /\ OutOfRange(hi)
           /\ Panic("slice index out of range")
        \/ /\ InRange(hi)
           /\ LET version == binary_to_usize(VersionField(f.off))
                  op_type == OpTypeFrom(binary_to_usize(Slice(f.off + 3, f.off + 6)))
                  rd == Max(f.rd, hi)
              IN stack' = [stack EXCEPT ![Len(stack)] =
                             IF IsValue(op_type)
                             THEN ValueFrame(version, f.from, rd)
                             ELSE OperatorFrame(version, op_type, f.from, rd)]
           /\ UNCHANGED <<others, input, bits, eof, packet, calls, pc, panic, out>>

\* one iteration of the loop of ValuePacket::new.  &raw[start..end] has
\* five bits or panics, so the v.len() != 5 branch is never taken.
ValueLoop ==
  /\ Running /\ Top.fn = "ValuePacket::new" /\ Top.at = "loop"
  /\ LET f == Top
         start == f.off + GroupStart(f.i)
         end == f.off + GroupEnd(f.i)
     IN \/ /\ OutOfRange(end)
           /\ Panic("slice index out of range")
        \/ /\ InRange(end)
           /\ LET v == Slice(start, end) IN
              stack' = [stack EXCEPT ![Len(stack)] =
                          [f EXCEPT !.value_raw = Append(@, GroupPayload(v)),
                                    !.i = @ + 1,
                                    !.at = IF LastGroup(v) THEN "break" ELSE "loop",
                                    !.rd = Max(@, end)]]
           /\ UNCHANGED <<others, input, bits, eof, packet, calls, pc, panic, out>>

\* ValuePacket::new after the loop, and parse_packet's return of it
ValueReturn ==
  /\ Running /\ Top.fn = "ValuePacket::new" /\ Top.at = "break"
  /\ LET f == Top
         joined == Join(f.value_raw)
         parsed == from_str_radix(joined)
     IN IF parsed.ok
        THEN Return(ValuePacket(f.version, parsed.v, ValueLen(f.i)), f)
        ELSE Panic("called unwrap on an Err value: ParseIntError")

\* OperatorPacket::new: the length type bit
OperatorNew ==
  /\ Running /\ Top.fn = "OperatorPacket::new" /\ Top.at = "new"
  /\ LET f == Top
         hi == f.off + 1
     IN \/ /\ OutOfRange(hi)
           /\ Panic("slice index out of range")
        \/ /\ InRange(hi)
           /\ stack' = [stack EXCEPT ![Len(stack)] =
                          [f EXCEPT !.length_type_id = Slice(f.off, hi)[1],
                                    !.at = "length",
                                    !.rd = Max(@, hi)]]
           /\ UNCHANGED <<others, input, bits, eof, packet, calls, pc, panic, out>>

\* OperatorPacket::new: the 11-bit count or the 15-bit total
OperatorLength ==
  /\ Running /\ Top.fn = "OperatorPacket::new" /\ Top.at = "length"
  /\ LET f == Top
         hi == f.off + LengthEnd(f.length_type_id)
     IN \/ /\ OutOfRange(hi)
           /\ Panic("slice index out of range")
        \/ /\ InRange(hi)
           /\ stack' = [stack EXCEPT ![Len(stack)] =
                          [f EXCEPT !.declared = binary_to_usize(Slice(f.off + 1, hi)),
                                    !.total_size = HeaderSize(f.length_type_id),
                                    !.start = LengthEnd(f.length_type_id),
                                    !.at = "loop",
                                    !.rd = Max(@, hi)]]
           /\ UNCHANGED <<others, input, bits, eof, packet, calls, pc, panic, out>>

\* the head of the for / while loop: call parse_packet(&raw[start..]) or leave
OperatorLoop ==
  /\ Running /\ Top.fn = "OperatorPacket::new" /\ Top.at = "loop"
  /\ LET f == Top
         again == IF f.length_type_id = 1
                  THEN Continue1(f.k, f.declared)
                  ELSE Continue0(f.declared, f.sub_packages_length_counter)
     IN \/ /\ again
           /\ IF OutOfRange(SubInput(f.off, f.start))
              THEN Panic("slice index out of range")
              ELSE /\ stack' = Append([stack EXCEPT ![Len(stack)] =
                                         [f EXCEPT !.starts = Append(@, f.start)]],
                                      ParseFrame(SubInput(f.off, f.start)))
                   /\ UNCHANGED <<others, input, bits, eof, packet, calls, pc, panic, out>>
        \/ /\ ~again
           /\ stack' = [stack EXCEPT ![Len(stack)] = [f EXCEPT !.at = "end"]]
           /\ UNCHANGED <<others, input, bits, eof, packet, calls, pc, panic, out>>

\* OperatorPacket::new after the loops, and parse_packet's return of it
OperatorReturn ==
  /\ Running /\ Top.fn = "OperatorPacket::new" /\ Top.at = "end"
  /\ LET f == Top IN
     Return(OperatorPacket(f.version, f.op_type, f.sub_packets,
                           OperatorLen(f.total_size)), f)

\* --------------------------------------------------------- evaluator
\* Packet::version_sum / OperatorPacket::version_sum
\* sub_sum + self.version (line 132)
SubSumOnly(sub_sum, version) == sub_sum
AddOwnVersion(sub_sum, version) == sub_sum + version

RECURSIVE version_sum(_)
version_sum(p) ==
  IF p.tag = "Value" THEN p.version
  ELSE LET sub[n \in 0..Len(p.sub_packets)] ==
             IF n = 0 THEN 0 ELSE sub[n - 1] + version_sum(p.sub_packets[n])
       IN AddOwnVersion(sub[Len(p.sub_packets)], p.version)

\* usize arithmetic.  A usize is held as its UsizeBits \div 8 bytes, least
\* significant first, while it is added to or multiplied; the numbers the
\* packets carry and main prints are plain integers.
RECURSIVE Bytes(_, _)
Bytes(n, k) == IF k = 0 THEN <<>> ELSE <<n % 256>> \o Bytes(n \div 256, k - 1)
Wide(n) == Bytes(n, UsizeBits \div 8)
\* the number of a byte string that is small enough to be printed here
RECURSIVE Narrow(_)
Narrow(w) == IF w = <<>> THEN 0 ELSE Head(w) + 256 * Narrow(Tail(w))
\* the byte string of column sums cols, carries propagated
RECURSIVE Carry(_, _)
Carry(cols, c) ==
  IF cols = <<>>
  THEN IF c = 0 THEN <<>> ELSE <<c % 256>> \o Carry(<<>>, c \div 256)
  ELSE <<(Head(cols) + c) % 256>> \o Carry(Tail(cols), (Head(cols) + c) \div 256)
\* the exact sum and product of two usize, as byte strings
WideAdd(a, b) == Carry([j \in 1..Len(a) |-> a[j] + b[j]], 0)
WideMul(a, b) ==
  LET n == Len(a)
      col(k) ==
        LET term[i \in 0..n] ==
              IF i = 0 THEN 0
              ELSE term[i - 1] +
                   (IF k + 1 - i \in 1..n THEN a[i] * b[k + 1 - i] ELSE 0)
        IN term[n]
  IN Carry([k \in 1..(2 * n - 1) |-> col(k)], 0)
\* the exact result r of a + b or a * b as the build gives it: a panic
\* where overflow checks are compiled in (the debug profile), the low
\* UsizeBits bits where they are not (the release profile)
Overflows(r) == \E j \in 1..Len(r) : j > UsizeBits \div 8 /\ r[j] # 0
Checked(r, kind, overflow_checks) ==
  IF Overflows(r) /\ overflow_checks
  THEN Err(kind)
  ELSE Ok(SubSeq(r, 1, UsizeBits \div 8))

\* the fold of the results vs of the sub-packets, evaluated in order: the
\* first panic, of a sub-packet or of the arithmetic, ends it
WideOp(op, a, b) == IF op = "Sum" THEN WideAdd(a, b) ELSE WideMul(a, b)
RECURSIVE FoldFrom(_, _, _, _, _)
FoldFrom(acc, vs, op, kind, overflow_checks) ==
  IF ~acc.ok \/ vs = <<>> THEN acc
  ELSE IF ~Head(vs).ok THEN Head(vs)
  ELSE FoldFrom(Checked(WideOp(op, acc.v, Wide(Head(vs).v)), kind, overflow_checks),
                Tail(vs), op, kind, overflow_checks)
Fold(vs, init, op, kind, overflow_checks) ==
  LET r == FoldFrom(Ok(Wide(init)), vs, op, kind, overflow_checks)
  IN IF r.ok THEN Ok(Narrow(r.v)) ELSE r

\* .sum() of the sub-packet values (line 151)
SumOf(vs, overflow_checks) ==
  Fold(vs, 0, "Sum", "attempt to add with overflow", overflow_checks)
\* .fold(1, |acc, p| acc * p.value()) (line 152)
ProductFromZero(vs, overflow_checks) ==
  Fold(vs, 0, "Product", "attempt to multiply with overflow", overflow_checks)
ProductOf(vs, overflow_checks) ==
  Fold(vs, 1, "Product", "attempt to multiply with overflow", overflow_checks)
\* .min() and .max() of a non-empty iterator (lines 153-154)
MinOf(vs) ==
  vs[CHOOSE j \in 1..Len(vs) : \A l \in 1..Len(vs) : vs[j] <= vs[l]]
MaxOf(vs) ==
  vs[CHOOSE j \in 1..Len(vs) : \A l \in 1..Len(vs) : vs[j] >= vs[l]]

\* the compare closure's match on op (lines 140-147)
CompareSwapped(op, v1, v2) ==
  CASE op = "GreaterThan" -> IF v2 > v1 THEN 1 ELSE 0
    [] op = "LessThan" -> IF v2 < v1 THEN 1 ELSE 0
    [] op = "EqualTo" -> IF v1 = v2 THEN 1 ELSE 0
Compare(op, v1, v2) ==
  CASE op = "GreaterThan" -> IF v1 > v2 THEN 1 ELSE 0
    [] op = "LessThan" -> IF v1 < v2 THEN 1 ELSE 0
    [] op = "EqualTo" -> IF v1 = v2 THEN 1 ELSE 0

\* Packet::value / OperatorPacket::value: Ok(number), or Err(panic), in a
\* build with or without overflow checks.
\* The iterators evaluate the sub-packets in order and the first panic
\* ends the evaluation; the compare closure indexes sub_packets[0] and
\* sub_packets[1] and looks at no other sub-packet.
RECURSIVE value(_, _)
value(p, overflow_checks) ==
  IF p.tag = "Value" THEN Ok(p.value)
  ELSE
    LET n == Len(p.sub_packets)
        vs == [j \in 1..n |-> value(p.sub_packets[j], overflow_checks)]
        bad == {j \in 1..n : ~vs[j].ok}
        first == CHOOSE j \in bad : \A l \in bad : j <= l
        nums == [j \in 1..n |-> vs[j].v]
    IN CASE p.op_type = "Sum" -> SumOf(vs, overflow_checks)
         [] p.op_type = "Product" -> ProductOf(vs, overflow_checks)
         [] p.op_type = "Minimum" ->
              IF bad # {} THEN vs[first]
              ELSE IF n = 0 THEN Err("called unwrap on a None value")
              ELSE Ok(MinOf(nums))
         [] p.op_type = "Maximum" ->
              IF bad # {} THEN vs[first]
              ELSE IF n = 0 THEN Err("called unwrap on a None value")
              ELSE Ok(MaxOf(nums))
         [] OTHER ->
              IF n < 1 THEN Err("index out of bounds")
              ELSE IF ~vs[1].ok THEN vs[1]
              ELSE IF n < 2 THEN Err("index out of bounds")
              ELSE IF ~vs[2].ok THEN vs[2]
              ELSE IF p.op_type = "Value"
              THEN Err("internal error: entered unreachable code")
              ELSE Ok(Compare(p.op_type, vs[1].v, vs[2].v))

\* -------------------------------------------------------- hex_decode
\* the characters input.txt is drawn from: the sixteen digits to_binary
\* knows, their lower-case forms, a letter that is no digit, and white space
UpperDigits ==
  {"0", "1", "2", "3", "4", "5", "6", "7", "8", "9",
   "A", "B", "C", "D", "E", "F"}
LowerDigits == {"a", "b", "c", "d", "e", "f"}
WhiteSpace == {" ", "\n"}
Alphabet == UpperDigits \cup LowerDigits \cup WhiteSpace \cup {"G"}

\* the texts of the tests (lines 251, 259, 275, 303)
TestInputs ==
  {<<"D", "2", "F", "E", "2", "8">>,
   <<"3", "8", "0", "0", "6", "F", "4", "5", "2", "9", "1", "2", "0", "0">>,
   <<"E", "E", "0", "0", "D", "4", "0", "C", "8", "2", "3", "0", "6", "0">>}

\* the match of to_binary (lines 208-226)
to_binaryLenient(c) ==
  CASE c = "0" -> Ok(<<0, 0, 0, 0>>) [] c = "1" -> Ok(<<0, 0, 0, 1>>)
    [] c = "2" -> Ok(<<0, 0, 1, 0>>) [] c = "3" -> Ok(<<0, 0, 1, 1>>)
    [] c = "4" -> Ok(<<0, 1, 0, 0>>) [] c = "5" -> Ok(<<0, 1, 0, 1>>)
    [] c = "6" -> Ok(<<0, 1, 1, 0>>) [] c = "7" -> Ok(<<0, 1, 1, 1>>)
    [] c = "8" -> Ok(<<1, 0, 0, 0>>) [] c = "9" -> Ok(<<1, 0, 0, 1>>)
    [] c = "A" -> Ok(<<1, 0, 1, 0>>) [] c = "B" -> Ok(<<1, 0, 1, 1>>)
    [] c = "C" -> Ok(<<1, 1, 0, 0>>) [] c = "D" -> Ok(<<1, 1, 0, 1>>)
    [] c = "E" -> Ok(<<1, 1, 1, 0>>) [] c = "F" -> Ok(<<1, 1, 1, 1>>)
    [] OTHER -> Ok(<<0, 0, 0, 0>>)
to_binaryUnpadded(c) ==
  CASE c = "0" -> Ok(<<0, 0, 0, 0>>) [] c = "1" -> Ok(<<1>>)
    [] c = "2" -> Ok(<<0, 0, 1, 0>>) [] c = "3" -> Ok(<<0, 0, 1, 1>>)
    [] c = "4" -> Ok(<<0, 1, 0, 0>>) [] c = "5" -> Ok(<<0, 1, 0, 1>>)
    [] c = "6" -> Ok(<<0, 1, 1, 0>>) [] c = "7" -> Ok(<<0, 1, 1, 1>>)
    [] c = "8" -> Ok(<<1, 0, 0, 0>>) [] c = "9" -> Ok(<<1, 0, 0, 1>>)
    [] c = "A" -> Ok(<<1, 0, 1, 0>>) [] c = "B" -> Ok(<<1, 0, 1, 1>>)
    [] c = "C" -> Ok(<<1, 1, 0, 0>>) [] c = "D" -> Ok(<<1, 1, 0, 1>>)
    [] c = "E" -> Ok(<<1, 1, 1, 0>>) [] c = "F" -> Ok(<<1, 1, 1, 1>>)
    [] OTHER -> Err("internal error: entered unreachable code")
to_binary(c) ==
  CASE c = "0" -> Ok(<<0, 0, 0, 0>>) [] c = "1" -> Ok(<<0, 0, 0, 1>>)
    [] c = "2" -> Ok(<<0, 0, 1, 0>>) [] c = "3" -> Ok(<<0, 0, 1, 1>>)
    [] c = "4" -> Ok(<<0, 1, 0, 0>>) [] c = "5" -> Ok(<<0, 1, 0, 1>>)
    [] c = "6" -> Ok(<<0, 1, 1, 0>>) [] c = "7" -> Ok(<<0, 1, 1, 1>>)
    [] c = "8" -> Ok(<<1, 0, 0, 0>>) [] c = "9" -> Ok(<<1, 0, 0, 1>>)
    [] c = "A" -> Ok(<<1, 0, 1, 0>>) [] c = "B" -> Ok(<<1, 0, 1, 1>>)
    [] c = "C" -> Ok(<<1, 1, 0, 0>>) [] c = "D" -> Ok(<<1, 1, 0, 1>>)
    [] c = "E" -> Ok(<<1, 1, 1, 0>>) [] c = "F" -> Ok(<<1, 1, 1, 1>>)
    [] OTHER -> Err("internal error: entered unreachable code")

\* str::trim: the text without its leading and trailing white space
RECURSIVE TrimStart(_)
TrimStart(s) ==
  IF s # <<>> /\ Head(s) \in WhiteSpace THEN TrimStart(Tail(s)) ELSE s
RECURSIVE TrimEnd(_)
TrimEnd(s) ==
  IF s # <<>> /\ s[Len(s)] \in WhiteSpace
  THEN TrimEnd(SubSeq(s, 1, Len(s) - 1)) ELSE s
TrimLeadingOnly(s) == TrimStart(s)
Trim(s) == TrimEnd(TrimStart(s))

\* s.trim().chars().map(|c| to_binary(c)).collect(): the patterns of the
\* characters in order, or the panic of the first character to_binary
\* does not know
hex_decode(s) ==
  LET t == Trim(s)
      parts == [j \in 1..Len(t) |-> to_binary(t[j])]
      bad == {j \in 1..Len(t) : ~parts[j].ok}
      first == CHOOSE j \in bad : \A l \in bad : j <= l
  IN IF bad # {} THEN parts[first]
     ELSE Ok(Join([j \in 1..Len(t) |-> parts[j].v]))

\* -------------------------------------------------------------- main
\* let decoded = hex_decode(&input); parse_packet(&decoded) is called
HexDecode ==
  /\ pc = "hex"
  /\ LET decoded == hex_decode(input) IN
     IF decoded.ok
     THEN /\ bits' = decoded.v
          /\ eof' = TRUE
          /\ stack' = <<ParseFrame(0)>>
          /\ pc' = "parse"
          /\ UNCHANGED <<others, input, packet, calls, panic, out>>
     ELSE Panic(decoded.err)

\* println!("P1: {}", packet.version_sum())
PrintP1 ==
  /\ pc = "p1"
  /\ out' = Append(out, version_sum(packet))
  /\ pc' = "p2"
  /\ UNCHANGED <<others, input, bits, eof, stack, packet, calls, panic>>

\* println!("P2: {}", packet.value())
PrintP2 ==
  /\ pc = "p2"
  /\ \E overflow_checks \in BOOLEAN :
       LET r == value(packet, overflow_checks) IN
       IF r.ok
       THEN /\ out' = Append(out, r.v)
            /\ pc' = "done"
            /\ UNCHANGED <<others, input, bits, eof, stack, packet, calls, panic>>
       ELSE Panic(r.err)

\* ================================================================ day 25
\* the sea floor of day 25: width and depth of the grid go up to MaxSide,
\* the floor holds up to MaxCucumbers cucumbers and main's loop is followed
\* for up to MaxSteps calls of next_step
MaxSide == 3
MaxCucumbers == 3
MaxSteps == 2

Cucumber == {"East", "South"}

\* Option<T>
None == [some |-> FALSE]
Some(v) == [some |-> TRUE, v |-> v]

\* HashMap<K, V> as a function on the set of its keys
EmptyMap == [p \in {} |-> 0]
getNone(map, key) == None
get(map, key) == IF key \in DOMAIN map THEN Some(map[key]) ELSE None
insert(map, key, v) == [k \in DOMAIN map \cup {key} |-> IF k = key THEN v ELSE map[k]]
KeysOf(map, v) == {k \in DOMAIN map : map[k] = v}
Filter(map, v) == [k \in KeysOf(map, v) |-> v]

\* the positions (line, column) that SeaFloor::new gives the characters of
\* depth lines of width characters
Grid(width, depth) == (0..(depth - 1)) \X (0..(width - 1))
Floors(width, depth) ==
  UNION {[ps -> Cucumber] :
           ps \in {s \in SUBSET Grid(width, depth) : Cardinality(s) <= MaxCucumbers}}

NoSeaFloor == [current |-> EmptyMap, history |-> <<>>, width |-> 0, depth |-> 0]
NoLocals == [changed |-> 0, first_half |-> EmptyMap, second_half |-> EmptyMap,
             todo |-> {}]

next_pos(pos, cucumber, width, depth) ==
  IF cucumber = "East"
  THEN <<pos[1], (pos[2] + 1) % width>>
  ELSE <<(pos[1] + 1) % depth, pos[2]>>

\* the closure `update` of next_step: the map after the insert, what it adds
\* to `changed`, and what the insert found in the way
update(to_update, from, pos, cucumber) ==
  LET np == next_pos(pos, cucumber, sea_floor.width, sea_floor.depth)
      free == ~get(from, np).some
      target == IF free THEN np ELSE pos
  IN  [to_update |-> insert(to_update, target, cucumber),
       changed |-> IF free THEN 1 ELSE 0,
       overwritten |-> get(to_update, target)]

ValueOverwritten == "value overwritten"

\* the variables of the day 16 program besides pc, panic and out
day16 == <<input, bits, eof, stack, packet, calls>>

\* next_step up to the first for_each: the South cucumbers are kept
FirstHalf ==
  /\ pc = "next_step"
  /\ Len(sea_floor.history) < MaxSteps
  /\ cucumbers' = [changed |-> 0,
                   first_half |-> Filter(sea_floor.current, "South"),
                   second_half |-> EmptyMap,
                   todo |-> KeysOf(sea_floor.current, "East")]
  /\ pc' = "east"
  /\ UNCHANGED <<day16, panic, out, sea_floor, octopuses>>

\* one call of update by the first for_each, on the East cucumber the
\* iteration of the HashMap yields next
UpdateEast ==
  /\ pc = "east"
  /\ \E pos \in cucumbers.todo :
       LET u == update(cucumbers.first_half, sea_floor.current, pos, "East") IN
       IF u.overwritten.some
       THEN Panic(ValueOverwritten)
       ELSE /\ cucumbers' = [cucumbers EXCEPT !.first_half = u.to_update,
                                              !.changed = @ + u.changed,
                                              !.todo = @ \ {pos}]
            /\ UNCHANGED <<day16, pc, panic, out, sea_floor, octopuses>>

\* between the two for_each: the East cucumbers are kept
SecondHalf ==
  /\ pc = "east"
  /\ cucumbers.todo = {}
  /\ cucumbers' = [cucumbers EXCEPT
                     !.second_half = Filter(cucumbers.first_half, "East"),
                     !.todo = KeysOf(cucumbers.first_half, "South")]
  /\ pc' = "south"
  /\ UNCHANGED <<day16, panic, out, sea_floor, octopuses>>

\* one call of update by the second for_each
UpdateSouth ==
  /\ pc = "south"
  /\ \E pos \in cucumbers.todo :
       LET u == update(cucumbers.second_half, cucumbers.first_half, pos, "South") IN
       IF u.overwritten.some
       THEN Panic(ValueOverwritten)
       ELSE /\ cucumbers' = [cucumbers EXCEPT !.second_half = u.to_update,
                                              !.changed = @ + u.changed,
                                              !.todo = @ \ {pos}]
            /\ UNCHANGED <<day16, pc, panic, out, sea_floor, octopuses>>

\* the end of next_step and main's use of what it returns
StepReturn ==
  /\ pc = "south"
  /\ cucumbers.todo = {}
  /\ sea_floor' = [sea_floor EXCEPT !.history = Append(@, sea_floor.current),
                                    !.current = cucumbers.second_half]
  /\ IF cucumbers.changed = 0
     THEN /\ out' = Append(out, Len(sea_floor.history) + 1)
          /\ pc' = "done"
     ELSE /\ pc' = "next_step"
          /\ UNCHANGED out
  /\ UNCHANGED <<day16, panic, cucumbers, octopuses>>

NextSea ==
  \/ FirstHalf
  \/ UpdateEast
  \/ SecondHalf
  \/ UpdateSouth
  \/ StepReturn

\* ================================================================ day 11
\* the octopus map of day 11 has up to MaxPoints points
MaxPoints == 3

Energies == 0..9
Points == {<<k % 2, k>> : k \in 0..(MaxPoints - 1)}
PosMaps == UNION {[ps -> Energies] : ps \in SUBSET Points}

NoOctopuses == [last_step |-> EmptyMap, new_step |-> EmptyMap, to_flash |-> <<>>,
                flashed |-> {}, popped |-> <<>>, flashes |-> 0]

\* the state the two programs that are not run are left in
OthersIdle ==
  /\ sea_floor = NoSeaFloor
  /\ cucumbers = NoLocals
  /\ octopuses = NoOctopuses

Day16Idle ==
  /\ input = <<>>
  /\ bits = <<>>
  /\ eof = FALSE
  /\ stack = <<>>
  /\ packet = NoPacket
  /\ calls = <<>>
  /\ panic = "none"
  /\ out = <<>>

\* input.txt of day 25 has been read and SeaFloor::new has returned
InitSea ==
  /\ \E width \in 0..MaxSide, depth \in 0..MaxSide :
       /\ depth = 0 => width = 0
       /\ \E current \in Floors(width, depth) :
            sea_floor = [current |-> current, history |-> <<>>,
                         width |-> width, depth |-> depth]
  /\ cucumbers = NoLocals
  /\ octopuses = NoOctopuses
  /\ pc = "next_step"
  /\ Day16Idle

SpecSea == InitSea /\ [][NextSea]_vars

\* north, north_east, east, south_east, south, south_west, west, north_west
Directions ==
  << <<1, 0>>, <<1, 1>>, <<0, 1>>, <<-1, 1>>, <<-1, 0>>, <<-1, -1>>, <<0, -1>>,
     <<1, -1>> >>

\* map.get(&neighbor) is Some(_)
KnownAlways(map, neighbor) == TRUE
Known(map, neighbor) == get(map, neighbor).some

RECURSIVE NeighborsIn(_, _, _)
NeighborsIn(map, point, ds) ==
  IF ds = <<>> THEN <<>>
  ELSE LET neighbor == <<point[1] + Head(ds)[1], point[2] + Head(ds)[2]>> IN
       (IF Known(map, neighbor) THEN <<neighbor>> ELSE <<>>)
         \o NeighborsIn(map, point, Tail(ds))

get_neighbors(map, point) == NeighborsIn(map, point, Directions)

\* entry(key).or_default(): the value, 0 if the key is new
or_default(map, key) == IF get(map, key).some THEN map[key] ELSE 0

\* the for_each of lines 64-73 over the neighbors still to visit
RECURSIVE ForEachNeighbor(_, _)
ForEachNeighbor(o, neighbors) ==
  IF neighbors = <<>> THEN o
  ELSE LET neighbor_pos == Head(neighbors)
           neighbor_value == or_default(o.new_step, neighbor_pos) + 1
           push == neighbor_value = 10 /\ neighbor_pos \notin o.flashed
       IN  ForEachNeighbor(
             [o EXCEPT !.new_step = insert(@, neighbor_pos, neighbor_value),
                       !.to_flash = IF push THEN Append(@, neighbor_pos) ELSE @,
                       !.flashed = IF push THEN @ \cup {neighbor_pos} ELSE @],
             Tail(neighbors))

\* the orders in which the iteration of a HashMap can yield the keys ps
Orders(ps) ==
  {s \in [1..Cardinality(ps) -> ps] : \A i, j \in DOMAIN s : i # j => s[i] # s[j]}

\* lines 52-60: every energy goes up by one, the points at 10 are to flash
Increment ==
  /\ pc = "next_step"
  /\ LET new_step == [p \in DOMAIN octopuses.last_step |-> octopuses.last_step[p] + 1] IN
     \E to_flash \in Orders(KeysOf(new_step, 10)) :
       octopuses' = [octopuses EXCEPT !.new_step = new_step,
                                      !.to_flash = to_flash,
                                      !.flashed = KeysOf(new_step, 10)]
  /\ pc' = "flash"
  /\ UNCHANGED <<day16, panic, out, sea_floor, cucumbers>>

\* one iteration of the while loop: the last point of to_flash flashes
Flash ==
  /\ pc = "flash"
  /\ octopuses.to_flash # <<>>
  /\ LET n == Len(octopuses.to_flash)
         current == octopuses.to_flash[n]
         o == [octopuses EXCEPT !.to_flash = SubSeq(@, 1, n - 1),
                                !.popped = Append(@, current)]
     IN  octopuses' = ForEachNeighbor(o, get_neighbors(octopuses.new_step, current))
  /\ UNCHANGED <<day16, pc, panic, out, sea_floor, cucumbers>>

\* lines 76-80: the flashed points go to 0, and next_step returns
Reset ==
  /\ pc = "flash"
  /\ octopuses.to_flash = <<>>
  /\ octopuses' =
       [octopuses EXCEPT
          !.new_step = [p \in DOMAIN octopuses.new_step \cup octopuses.flashed |->
                          IF p \in octopuses.flashed THEN 0 ELSE octopuses.new_step[p]],
          !.flashes = Cardinality(octopuses.flashed)]
  /\ pc' = "returned"
  /\ UNCHANGED <<day16, panic, out, sea_floor, cucumbers>>

\* next_step is called on a map of energies 0..9
InitOctopuses ==
  /\ \E last_step \in PosMaps : octopuses = [NoOctopuses EXCEPT !.last_step = last_step]
  /\ sea_floor = NoSeaFloor
  /\ cucumbers = NoLocals
  /\ pc = "next_step"
  /\ Day16Idle

NextOctopuses ==
  \/ Increment
  \/ Flash
  \/ Reset

SpecOctopuses == InitOctopuses /\ [][NextOctopuses]_vars

\* main has called parse_packet(&decoded); the text that was decoded is
\* left open, the bits stand for it
Init ==
  /\ input = <<>>
  /\ bits = <<>>
  /\ eof = FALSE
  /\ stack = <<ParseFrame(0)>>
  /\ packet = NoPacket
  /\ calls = <<>>
  /\ pc = "parse"
  /\ panic = "none"
  /\ out = <<>>
  /\ OthersIdle

Next ==
  \/ Feed
  \/ Close
  \/ ParsePacket
  \/ ValueLoop
  \/ ValueReturn
  \/ OperatorNew
  \/ OperatorLength
  \/ OperatorLoop
  \/ OperatorReturn
  \/ PrintP1
  \/ PrintP2

Spec == Init /\ [][Next]_vars

\* the whole of main: input.txt has been read
InitMain ==
  /\ input \in UNION {[1..n -> Alphabet] : n \in 0..MaxHexLen} \cup TestInputs
  /\ bits = <<>>
  /\ eof = FALSE
  /\ stack = <<>>
  /\ packet = NoPacket
  /\ calls = <<>>
  /\ pc = "hex"
  /\ panic = "none"
  /\ out = <<>>
  /\ OthersIdle

NextMain ==
  \/ HexDecode
  \/ ParsePacket
  \/ ValueLoop
  \/ ValueReturn
  \/ OperatorNew
  \/ OperatorLength
  \/ OperatorLoop
  \/ OperatorReturn
  \/ PrintP1
  \/ PrintP2

SpecMain == InitMain /\ [][NextMain]_vars

\* parse_packet runs on: a step that can be taken is taken, and an input
\* that is not known to go on ends
NextFair ==
  \/ FeedShort
  \/ Close
  \/ ParsePacket
  \/ ValueLoop
  \/ ValueReturn
  \/ OperatorNew
  \/ OperatorLength
  \/ OperatorLoop
  \/ OperatorReturn

SpecFair == Init /\ [][NextFair]_vars /\ WF_vars(NextFair)

\* parse_packet on an input that is one literal of up to MaxLongGroups
\* groups
NextLong ==
  \/ FeedLong
  \/ Close
  \/ ParsePacket
  \/ ValueLoop
  \/ ValueReturn
  \/ PrintP1
  \/ PrintP2

SpecLong == Init /\ [][NextLong]_vars

\* the program on an input of up to MaxNestBits bits in which operators
\* nest
NextNest ==
  \/ FeedNest
  \/ Close
  \/ ParsePacket
  \/ ValueLoop
  \/ ValueReturn
  \/ OperatorNew
  \/ OperatorLength
  \/ OperatorLoop
  \/ OperatorReturn
  \/ PrintP1
  \/ PrintP2

SpecNest == Init /\ [][NextNest]_vars

\* parse_packet and the two evaluations on an input that is a Sum or a
\* Product of literals of up to MaxWideGroups groups
NextWide ==
  \/ FeedWide
  \/ Close
  \/ ParsePacket
  \/ ValueLoop
  \/ ValueReturn
  \/ OperatorNew
  \/ OperatorLength
  \/ OperatorLoop
  \/ OperatorReturn
  \/ PrintP1
  \/ PrintP2

SpecWide == Init /\ [][NextWide]_vars

\* -------------------------------------------------------- properties
\* the packet format, read off the input independently of the decoder
Bit(pos) == bits[pos + 1]
\* the length type bit and the declared count or total of the operator
\* packet that starts at `from`
LengthTypeAt(from) == Bit(from + 6)
DeclaredAt(from) ==
  LET w == IF LengthTypeAt(from) = 1 THEN 11 ELSE 15
      pow[j \in 0..w] == IF j = 0 THEN 1 ELSE 2 * pow[j - 1]
      part[j \in 0..w] ==
        IF j = 0 THEN 0 ELSE part[j - 1] + Bit(from + 6 + j) * pow[w - j]
  IN part[w]
\* the low four bits of the j-th group (j >= 1) of the literal at `from`
NibbleAt(from, j) ==
  LET g == from + 6 + 5 * (j - 1) IN
  8 * Bit(g + 1) + 4 * Bit(g + 2) + 2 * Bit(g + 3) + Bit(g + 4)
ContinuationAt(from, j) == Bit(from + 6 + 5 * (j - 1))

RECURSIVE SumLens(_)
SumLens(ps) == IF ps = <<>> THEN 0 ELSE Head(ps).len + SumLens(Tail(ps))

Returned == {calls[i] : i \in 1..Len(calls)}
ReturnedValues == {c \in Returned : c.packet.tag = "Value"}
ReturnedOperators == {c \in Returned : c.packet.tag = "Operator"}
Decoded == pc \in {"p1", "p2", "done"}
Comparisons == {"GreaterThan", "LessThan", "EqualTo"}
OperatorFrames ==
  {stack[d] : d \in {e \in 1..Len(stack) : stack[e].fn = "OperatorPacket::new"}}

(* C1: the len of every packet parse_packet returns, the root packet and   *)
(* every sub-packet, is the number of bits its call read: the slices the   *)
(* call took end at from + len, and after the root call the input has     *)
(* been indexed up to len and no further (what follows is untouched).      *)
LenIsBitsRead ==
  /\ \A c \in Returned : c.from + c.packet.len = c.rd
  /\ Decoded => packet.len = Len(bits)

LenIsBitsReadWitness ==
  /\ pc = "done"
  /\ \E c \in ReturnedOperators :
       /\ c.from > 0
       /\ \E j \in 1..Len(c.packet.sub_packets) :
            c.packet.sub_packets[j].tag = "Value"

(* C2: a returned operator with length type 0 and declared total T has    *)
(* sub-packets whose len fields sum to exactly T.                          *)
TotalReached ==
  \A c \in ReturnedOperators :
    LengthTypeAt(c.from) = 0 =>
      SumLens(c.packet.sub_packets) = DeclaredAt(c.from)

TotalReachedWitness ==
  \E c \in ReturnedOperators :
    /\ LengthTypeAt(c.from) = 0
    /\ DeclaredAt(c.from) = 27
    /\ Len(c.packet.sub_packets) = 2

(* C3: once the sub-packet lengths of a length type 0 operator have       *)
(* overshot its declared total, the decoder does not go on to decode a    *)
(* further sub-packet of that operator.                                    *)
OvershootStopsDecoding ==
  \A d \in 1..(Len(stack) - 1) :
    LET f == stack[d] IN
    (f.fn = "OperatorPacket::new" /\ f.at = "loop" /\ f.length_type_id = 0)
      => f.sub_packages_length_counter <= f.declared

(* C4: a returned operator with length type 1 and declared count N has    *)
(* exactly N sub-packets.                                                  *)
CountReached ==
  \A c \in ReturnedOperators :
    LengthTypeAt(c.from) = 1 =>
      Len(c.packet.sub_packets) = DeclaredAt(c.from)

CountReachedWitness ==
  \E c \in ReturnedOperators :
    /\ LengthTypeAt(c.from) = 1
    /\ DeclaredAt(c.from) = 3
    /\ Len(c.packet.sub_packets) = 3

(* C5: a returned literal has len 6 + 5g with g >= 1, where the g-th      *)
(* group is the first whose leading bit is 0, and exactly g groups were   *)
(* read.                                                                   *)
LiteralStopsAtFirstZero ==
  \A c \in ReturnedValues :
    LET g == (c.packet.len - 6) \div 5 IN
    /\ g >= 1
    /\ c.packet.len = 6 + 5 * g
    /\ c.rd = c.from + 6 + 5 * g
    /\ c.rd <= Len(bits)
    /\ ContinuationAt(c.from, g) = 0
    /\ \A j \in 1..(g - 1) : ContinuationAt(c.from, j) = 1

LiteralStopsAtFirstZeroWitness ==
  \E c \in ReturnedValues : c.packet.len = 21

(* C6: the value of a returned literal is the big-endian number whose     *)
(* hexadecimal digits are the low four bits of its groups, in stream      *)
(* order.                                                                  *)
LiteralValueBigEndian ==
  \A c \in ReturnedValues :
    LET g == (c.packet.len - 6) \div 5
        acc[j \in 0..g] ==
          IF j = 0 THEN 0 ELSE 16 * acc[j - 1] + NibbleAt(c.from, j)
    IN c.packet.value = acc[g]

LiteralValueBigEndianWitness ==
  \E c \in ReturnedValues : c.packet.value = 16 * (16 * 10 + 1) + 10

(* C7: the len of a returned operator is 6 + 1 + 15 (length type 0) or   *)
(* 11 (length type 1) + the sum of the len fields of its sub-packets.     *)
OperatorLenIsSum ==
  \A c \in ReturnedOperators :
    c.packet.len =
      6 + 1 + (IF LengthTypeAt(c.from) = 0 THEN 15 ELSE 11)
        + SumLens(c.packet.sub_packets)

OperatorLenIsSumWitness ==
  /\ pc = "done"
  /\ \E c \in ReturnedOperators :
       LengthTypeAt(c.from) = 0 /\ c.packet.sub_packets # <<>>
  /\ \E c \in ReturnedOperators :
       LengthTypeAt(c.from) = 1 /\ c.packet.sub_packets # <<>>

\* the sub-packets of an operator call are decoded one after the other
SequentialStarts ==
  \A f \in OperatorFrames :
    /\ Len(f.starts) \in {Len(f.sub_packets), Len(f.sub_packets) + 1}
    /\ f.starts # <<>> =>
         f.starts[1] = 1 + (IF f.length_type_id = 0 THEN 15 ELSE 11)
    /\ \A j \in 1..(Len(f.starts) - 1) :
         f.starts[j + 1] = f.starts[j] + f.sub_packets[j].len
    /\ \A j \in 1..Len(f.sub_packets) :
         \E c \in Returned :
           c.from = f.off + f.starts[j] /\ c.packet = f.sub_packets[j]

\* an operator call only ever appends to its sub_packets
AppendOnly ==
  \A d \in 1..Len(stack) :
    (/\ d <= Len(stack')
     /\ stack[d].fn = "OperatorPacket::new"
     /\ stack'[d].fn = "OperatorPacket::new"
     /\ stack'[d].from = stack[d].from)
      => /\ Len(stack'[d].sub_packets) >= Len(stack[d].sub_packets)
         /\ SubSeq(stack'[d].sub_packets, 1, Len(stack[d].sub_packets))
              = stack[d].sub_packets

(* C8: the first sub-packet of an operator starts right after its length  *)
(* field, each further one starts where the one before it ended, and      *)
(* sub_packets holds them in stream order; a sub-packet once pushed is    *)
(* never changed or decoded again.                                         *)
StrictlySequential == []SequentialStarts /\ [][AppendOnly]_vars

StrictlySequentialWitness ==
  \E f \in OperatorFrames :
    f.at = "end" /\ Len(f.sub_packets) = 3 /\ f.length_type_id = 1

(* C9: every returned operator has exactly 2 sub-packets when it is a     *)
(* comparison and at least 1 otherwise.                                    *)
ArityInvariant ==
  \A c \in ReturnedOperators :
    IF c.packet.op_type \in Comparisons
    THEN Len(c.packet.sub_packets) = 2
    ELSE Len(c.packet.sub_packets) >= 1

(* C10: value() of a comparison operator returns a number only when the   *)
(* packet has exactly 2 sub-packets.                                       *)
ComparisonValueNeedsTwo ==
  (pc = "done" /\ packet.tag = "Operator" /\ packet.op_type \in Comparisons)
    => Len(packet.sub_packets) = 2

\* the values of the sub-packets of p, as a bag: number -> occurrences
SubValueCount(p, x) ==
  Cardinality({j \in 1..Len(p.sub_packets) : value(p.sub_packets[j], TRUE).v = x})
SubValues(p) == {value(p.sub_packets[j], TRUE).v : j \in 1..Len(p.sub_packets)}
RECURSIVE Power(_, _)
Power(x, n) == IF n = 0 THEN 1 ELSE x * Power(x, n - 1)
RECURSIVE SetSum(_, _)
SetSum(S, p) ==
  IF S = {} THEN 0
  ELSE LET x == CHOOSE y \in S : TRUE
       IN x * SubValueCount(p, x) + SetSum(S \ {x}, p)
RECURSIVE SetProduct(_, _)
SetProduct(S, p) ==
  IF S = {} THEN 1
  ELSE LET x == CHOOSE y \in S : TRUE
       IN Power(x, SubValueCount(p, x)) * SetProduct(S \ {x}, p)
Arithmetic == {"Sum", "Product", "Minimum", "Maximum"}

(* C11: value() of a literal is its stored value; value() of a Sum,       *)
(* Product, Minimum or Maximum operator with at least one sub-packet is   *)
(* the sum, the product, the least and the greatest of the values of its  *)
(* sub-packets.                                                            *)
ArithmeticValue ==
  pc = "done" =>
    /\ packet.tag = "Value" => out[2] = packet.value
    /\ (/\ packet.tag = "Operator"
        /\ packet.op_type \in Arithmetic
        /\ packet.sub_packets # <<>>) =>
         LET S == SubValues(packet) IN
         CASE packet.op_type = "Sum" -> out[2] = SetSum(S, packet)
           [] packet.op_type = "Product" -> out[2] = SetProduct(S, packet)
           [] packet.op_type = "Minimum" ->
                out[2] \in S /\ \A x \in S : out[2] <= x
           [] packet.op_type = "Maximum" ->
                out[2] \in S /\ \A x \in S : out[2] >= x

ArithmeticValueWitness ==
  /\ pc = "done"
  /\ packet.tag = "Operator"
  /\ packet.op_type = "Product"
  /\ Len(packet.sub_packets) = 3
  /\ out[2] = 100

(* C12: value() of a comparison operator with exactly two sub-packets is  *)
(* 1 or 0: 1 exactly when the value of the first decoded sub-packet is    *)
(* greater than (GreaterThan), less than (LessThan) or equal to (EqualTo) *)
(* the value of the second.                                                *)
ComparisonValue ==
  (/\ pc = "done"
   /\ packet.tag = "Operator"
   /\ packet.op_type \in Comparisons
   /\ Len(packet.sub_packets) = 2) =>
    LET v1 == value(packet.sub_packets[1], TRUE).v
        v2 == value(packet.sub_packets[2], TRUE).v
        holds == CASE packet.op_type = "GreaterThan" -> v1 > v2
                   [] packet.op_type = "LessThan" -> v1 < v2
                   [] packet.op_type = "EqualTo" -> v1 = v2
    IN /\ out[2] \in {0, 1}
       /\ out[2] = 1 <=> holds

ComparisonValueWitness ==
  /\ pc = "done"
  /\ packet.tag = "Operator"
  /\ packet.op_type = "LessThan"
  /\ Len(packet.sub_packets) = 2
  /\ out[2] = 1

\* the nodes of the tree of p, the packet itself first
RECURSIVE Flatten(_)
Flatten(p) ==
  IF p.tag = "Value" THEN <<p>>
  ELSE LET below[j \in 0..Len(p.sub_packets)] ==
             IF j = 0 THEN <<>>
             ELSE below[j - 1] \o Flatten(p.sub_packets[j])
       IN <<p>> \o below[Len(p.sub_packets)]
RECURSIVE VersionsOf(_)
VersionsOf(nodes) ==
  IF nodes = <<>> THEN 0 ELSE Head(nodes).version + VersionsOf(Tail(nodes))

(* C13: version_sum(packet) is the sum of the version fields of all the   *)
(* nodes of the packet tree, each node counted once.                      *)
VersionSumIsFlatSum ==
  pc \in {"p2", "done"} =>
    /\ out[1] = VersionsOf(Flatten(packet))
    /\ Len(Flatten(packet)) = Len(calls)

VersionSumIsFlatSumWitness ==
  /\ pc = "done"
  /\ Len(Flatten(packet)) >= 3
  /\ \E c \in ReturnedOperators : c.from > 0

\* ------------------------------------------------------------------
\* the innermost call is about to index past the end of the input: the
\* slice it takes next ends after the last bit, or the sub-packet loop
\* continues at an offset after the last bit
TruncatedRead ==
  /\ Running /\ eof
  /\ \/ Pending.field # "none" /\ Pending.hi > Len(bits)
     \/ /\ Top.fn = "OperatorPacket::new" /\ Top.at = "loop"
        /\ IF Top.length_type_id = 1
           THEN Top.k < Top.declared
           ELSE Top.declared # Top.sub_packages_length_counter
        /\ Top.off + Top.start > Len(bits)
AbortsDecode ==
  /\ pc' = "panic" /\ panic' = "slice index out of range"
  /\ packet' = NoPacket /\ out' = <<>>
  /\ bits' = bits /\ calls' = calls /\ stack' = stack

\* C17: whenever a read of the decoder (header, literal group, length
\* type bit, count or total field, or a further sub-packet) needs more
\* bits than the input has left, the decoder can take a step, and the
\* step it takes aborts the run with a panic: no packet is returned to
\* main, nothing is printed, and no bit is added to the input.
TruncationAborts ==
  /\ [](TruncatedRead => ENABLED Next)
  /\ [][TruncatedRead => AbortsDecode]_vars
TruncationAbortsWitness ==
  /\ pc = "panic" /\ panic = "slice index out of range"
  /\ packet = NoPacket
  /\ Len(calls) >= 1 /\ Len(stack) >= 3

\* C18: a run that fails (in decoding, version_sum or value) has printed
\* nothing, and a run prints its two results only after decoding and
\* both evaluations have succeeded.
NoOutputOnFailure ==
  /\ pc = "panic" => out = <<>>
  /\ out # <<>> => (packet # NoPacket /\ (\A checks \in BOOLEAN : value(packet, checks).ok))

\* the 3-bit type id of the packet that starts at `from`, and the packet
\* kinds in the order of their type ids 0..7
TypeIdAt(from) == 4 * Bit(from + 3) + 2 * Bit(from + 4) + Bit(from + 5)
KindOf ==
  <<"Sum", "Product", "Minimum", "Maximum", "Literal", "GreaterThan",
    "LessThan", "EqualTo">>

\* C19: type id 4 gives a literal and type ids 0, 1, 2, 3, 5, 6, 7 give an
\* operator of kind Sum, Product, Minimum, Maximum, GreaterThan, LessThan,
\* EqualTo; and whatever its kind, an operator frames its sub-packets by
\* its length type bit alone: bit 1 reads an 11-bit count and stops after
\* that many sub-packets, bit 0 reads a 15-bit total and stops when the
\* sub-packet lengths equal it.
FixedKindMapping ==
  /\ \A c \in Returned :
       LET kind == KindOf[TypeIdAt(c.from) + 1] IN
       IF kind = "Literal"
       THEN c.packet.tag = "Value"
       ELSE c.packet.tag = "Operator" /\ c.packet.op_type = kind
  /\ \A f \in OperatorFrames :
       /\ f.op_type = KindOf[TypeIdAt(f.from) + 1]
       /\ f.at \in {"loop", "end"} =>
            /\ f.length_type_id = LengthTypeAt(f.from)
            /\ f.declared = DeclaredAt(f.from)
            /\ f.total_size - SumLens(f.sub_packets) =
                 (IF LengthTypeAt(f.from) = 1 THEN 1 + 11 ELSE 1 + 15)
       /\ f.at = "end" =>
            IF LengthTypeAt(f.from) = 1
            THEN Len(f.sub_packets) = f.declared
            ELSE SumLens(f.sub_packets) = f.declared
FixedKindMappingWitness ==
  /\ pc = "p1" /\ packet.tag = "Operator" /\ packet.op_type = "LessThan"
  /\ LengthTypeAt(0) = 1
  /\ \E c \in ReturnedOperators :
       /\ c.from > 0 /\ c.packet.op_type = "EqualTo"
       /\ LengthTypeAt(c.from) = 0
       /\ \E j \in 1..Len(c.packet.sub_packets) :
            c.packet.sub_packets[j].tag = "Value"

\* ------------------------------------------------------------------
\* the hexadecimal digits in the order of their values 0..15, in both
\* cases, and the value of a digit
HexUpper ==
  <<"0", "1", "2", "3", "4", "5", "6", "7", "8", "9",
    "A", "B", "C", "D", "E", "F">>
HexLower ==
  <<"0", "1", "2", "3", "4", "5", "6", "7", "8", "9",
    "a", "b", "c", "d", "e", "f">>
IsHexDigit(c) == \E i \in 1..16 : HexUpper[i] = c \/ HexLower[i] = c
DigitValue(c) ==
  (CHOOSE i \in 1..16 : HexUpper[i] = c \/ HexLower[i] = c) - 1
UpperCase(c) == IF IsHexDigit(c) THEN HexUpper[DigitValue(c) + 1] ELSE c
ToUpperCase(s) == [j \in 1..Len(s) |-> UpperCase(s[j])]
Unreachable == "internal error: entered unreachable code"
\* hex_decode has returned the bit string
HexDecoded == pc # "hex" /\ panic # Unreachable

\* C14: the bit string hex_decode returns has exactly four characters per
\* character of the (trimmed) text, all of them 0 or 1, and the four that
\* stand for a digit are the digit's value in binary, most significant
\* bit first and with its leading zeros.
HexDigitPatterns ==
  HexDecoded =>
    LET t == Trim(input) IN
    /\ Len(bits) = 4 * Len(t)
    /\ \A i \in 1..Len(bits) : bits[i] \in {0, 1}
    /\ \A j \in 1..Len(t) :
         /\ IsHexDigit(t[j])
         /\ 8 * bits[4 * j - 3] + 4 * bits[4 * j - 2] + 2 * bits[4 * j - 1]
              + bits[4 * j] = DigitValue(t[j])
HexDigitPatternsWitness ==
  /\ HexDecoded
  /\ input = <<"1", "0", "F">>
  /\ bits = <<0, 0, 0, 1, 0, 0, 0, 0, 1, 1, 1, 1>>

\* C15: for a text of hexadecimal digits in either case, hex_decode does
\* what it does for the text in upper case: it returns the same bits.
CaseInsensitive ==
  (pc # "hex" /\ \A j \in 1..Len(input) : IsHexDigit(input[j])) =>
    LET upper == hex_decode(ToUpperCase(input)) IN
    /\ HexDecoded
    /\ upper.ok /\ bits = upper.v

\* C16: a text with a character that is no hexadecimal digit (after the
\* trim) makes hex_decode fail: main panics there, with no bit string, no
\* call of parse_packet, no packet and no output.
InvalidDigitFails ==
  (pc # "hex" /\ \E j \in 1..Len(Trim(input)) : ~IsHexDigit(Trim(input)[j]))
    => /\ pc = "panic" /\ panic = Unreachable
       /\ bits = <<>> /\ stack = <<>> /\ calls = <<>>
       /\ packet = NoPacket /\ out = <<>>
InvalidDigitFailsWitness ==
  pc = "panic" /\ panic = Unreachable /\ input = <<"D", "2", "G">>

\* ------------------------------------------------------------------
\* the payload bits of the g groups of the literal at `from`
PayloadAt(from, g) ==
  Join([j \in 1..g |-> SubSeq(bits, from + 6 + 5 * j - 3, from + 6 + 5 * j)])
ParseIntError == "called unwrap on an Err value: ParseIntError"

\* C20: a literal whose payload is a number wider than usize is never
\* returned, with whatever value: every returned literal has a payload
\* that fits and its value is that number, and where the payload of the
\* literal being read does not fit, the run panics with no packet.
OverflowFails ==
  /\ \A c \in ReturnedValues :
       LET payload == PayloadAt(c.from, (c.packet.len - 6) \div 5) IN
       /\ Len(Significant(payload)) <= UsizeBits
       /\ c.packet.value = BitsValue(payload)
  /\ panic = ParseIntError =>
       /\ pc = "panic" /\ packet = NoPacket /\ out = <<>>
       /\ Len(Significant(Join(Top.value_raw))) > UsizeBits
OverflowFailsWitness ==
  /\ panic = ParseIntError
  /\ Top.i = 17
  /\ Len(Significant(Join(Top.value_raw))) = UsizeBits + 1

\* ------------------------------------------------------------------
\* the arity invariant of a packet tree; the literal values of a decoded
\* tree fit usize
RECURSIVE WellFormed(_)
WellFormed(p) ==
  p.tag = "Operator" =>
    /\ IF p.op_type \in Comparisons
       THEN Len(p.sub_packets) = 2
       ELSE Len(p.sub_packets) >= 1
    /\ \A j \in 1..Len(p.sub_packets) : WellFormed(p.sub_packets[j])

\* C21: on a decoded tree that satisfies the arity invariant, version_sum
\* and value return: the run does not panic after the decode, in a build
\* with overflow checks or without, also where a sum or a product of
\* sub-values is 2^64 or more.
EvaluationTotal ==
  (packet # NoPacket /\ WellFormed(packet)) =>
    /\ pc # "panic"
    /\ \A overflow_checks \in BOOLEAN : value(packet, overflow_checks).ok

\* ------------------------------------------------------------------
\* C22: hex_decode of a text and of the text followed by a newline (or a
\* blank) do the same, return the same bits or panic alike; and a text
\* with a character that is no hexadecimal digit somewhere between two
\* hexadecimal digits is rejected: main panics in hex_decode, with no bits
\* and no packet.
TrailingWhiteSpaceIgnored ==
  pc # "hex" =>
    /\ \A w \in WhiteSpace :
         LET longer == hex_decode(Append(input, w)) IN
         IF longer.ok
         THEN HexDecoded /\ bits = longer.v
         ELSE panic = Unreachable /\ bits = <<>>
    /\ (\E i, j, k \in 1..Len(input) :
          /\ i < j /\ j < k
          /\ IsHexDigit(input[i]) /\ ~IsHexDigit(input[j])
          /\ IsHexDigit(input[k]))
         => /\ pc = "panic" /\ panic = Unreachable
            /\ bits = <<>> /\ packet = NoPacket
TrailingWhiteSpaceIgnoredWitness ==
  /\ HexDecoded
  /\ input = <<"D", "0", "\n">>
  /\ bits = <<1, 1, 0, 1, 0, 0, 0, 0>>

\* ------------------------------------------------------------------
\* within one call of OperatorPacket::new, start does not decrease
StartNeverDecreases ==
  \A d \in 1..Len(stack) :
    (/\ d <= Len(stack')
     /\ stack[d].fn = "OperatorPacket::new"
     /\ stack'[d].fn = "OperatorPacket::new"
     /\ stack'[d].from = stack[d].from)
      => stack'[d].start >= stack[d].start
\* a call takes no slice that begins before its own input or before a bit
\* it has read, and its input begins no earlier than the last bit its
\* caller has read
NoBackwardRead ==
  /\ (Running /\ Pending.field # "none") =>
       (Pending.lo >= Top.from /\ Pending.lo >= Top.rd)
  /\ \A d \in 1..Len(stack) : stack[d].rd >= stack[d].from
  /\ \A d \in 1..(Len(stack) - 1) :
       /\ stack[d + 1].from >= stack[d].rd
       /\ stack[d + 1].from > stack[d].from

\* C23: the read offset only increases: the start offset of an operator's
\* sub-packets never decreases, a recursive call is handed the suffix of
\* the input at its own offset, and no call reads a bit before the offset
\* at which it started or before one that was read already.
OffsetOnlyIncreases == []NoBackwardRead /\ [][StartNeverDecreases]_vars
OffsetOnlyIncreasesWitness ==
  /\ Len(stack) >= 2
  /\ Top.fn = "ValuePacket::new" /\ Top.i >= 1
  /\ \E d \in 1..Len(stack) :
       stack[d].fn = "OperatorPacket::new" /\ Len(stack[d].starts) >= 2

\* ------------------------------------------------------------------
\* C24: the version of every node of a decoded tree, literal or operator
\* at any depth, is in 0..7: it is the number of the three bits the node
\* begins with.
VersionInRange ==
  /\ \A c \in Returned :
       /\ c.packet.version \in 0..7
       /\ c.packet.version =
            4 * Bit(c.from) + 2 * Bit(c.from + 1) + Bit(c.from + 2)
  /\ Decoded =>
       \A j \in 1..Len(Flatten(packet)) : Flatten(packet)[j].version \in 0..7
VersionInRangeWitness ==
  /\ Decoded /\ packet.tag = "Operator" /\ packet.version = 6
  /\ \E c \in ReturnedOperators :
       /\ c.from > 0 /\ c.packet.version = 1
       /\ \E j \in 1..Len(c.packet.sub_packets) :
            c.packet.sub_packets[j].version = 6

\* ------------------------------------------------------------------
\* C25: parse_packet terminates: on every input the root call returns a
\* packet to main or the run panics, after finitely many steps, also
\* where a length type 0 operator overshoots its total and where a length
\* type 1 operator declares more sub-packets than the input holds.
ParseTerminates == <>(pc # "parse")
ParseTerminatesWitness ==
  /\ pc = "panic" /\ panic = "slice index out of range"
  /\ \E f \in OperatorFrames :
       /\ f.length_type_id = 0
       /\ f.sub_packages_length_counter > f.declared

\* ------------------------------------------------------------------
\* the seven kinds of operator
OperatorKinds == Arithmetic \cup Comparisons

\* C26: no OperatorPacket::new call is made with, and no operator is
\* returned with, op_type Value: type id 4 leads to a literal only, every
\* operator in every returned packet is of one of the seven operator
\* kinds, and value() never panics in the unreachable!() arm of the
\* compare closure.
NoValueOperator ==
  /\ \A f \in OperatorFrames : f.op_type \in OperatorKinds
  /\ \A c \in Returned :
       /\ TypeIdAt(c.from) = 4 => c.packet.tag = "Value"
       /\ \A j \in 1..Len(Flatten(c.packet)) :
            Flatten(c.packet)[j].tag = "Operator" =>
              Flatten(c.packet)[j].op_type \in OperatorKinds
  /\ panic # Unreachable
  /\ Decoded =>
       \A checks \in BOOLEAN :
         value(packet, checks) # Err(Unreachable)
NoValueOperatorWitness ==
  /\ pc = "done"
  /\ packet.tag = "Operator" /\ packet.op_type = "EqualTo"
  /\ Len(packet.sub_packets) = 2
  /\ \E j \in 1..2 : packet.sub_packets[j].tag = "Value"

\* ------------------------------------------------------------------
\* the region of the length type 0 operator at `from`: the bits from lo up
\* to hi (exclusive) that its 15-bit total declares
Region(from) == [lo |-> from + 22, hi |-> from + 22 + DeclaredAt(from)]
\* calls[i] is a call made, at whatever depth, below the call calls[k]
Below(i, k) == i < k /\ calls[i].from > calls[k].from

\* C27: the bits read by the calls below a returned length type 0
\* operator lie inside its region; and the region of a length type 0
\* operator nested in it is inside its region.
RegionContainment ==
  \A k \in 1..Len(calls) :
    (calls[k].packet.tag = "Operator" /\ LengthTypeAt(calls[k].from) = 0) =>
      \A i \in 1..Len(calls) :
        Below(i, k) =>
          /\ calls[i].from >= Region(calls[k].from).lo
          /\ calls[i].rd <= Region(calls[k].from).hi
          /\ (calls[i].packet.tag = "Operator"
                /\ LengthTypeAt(calls[i].from) = 0) =>
               /\ Region(calls[i].from).lo >= Region(calls[k].from).lo
               /\ Region(calls[i].from).hi <= Region(calls[k].from).hi
RegionContainmentWitness ==
  /\ pc = "done" /\ packet.tag = "Operator" /\ Len(bits) = 55
  /\ LengthTypeAt(0) = 0 /\ DeclaredAt(0) = 33
  /\ \E i \in 1..Len(calls) :
       /\ calls[i].from = 22 /\ calls[i].packet.tag = "Operator"
       /\ LengthTypeAt(22) = 0 /\ DeclaredAt(22) = 11
       /\ Len(calls[i].packet.sub_packets) = 1

\* ------------------------------------------------------------------
\* C28: every returned packet has len >= 11, every returned operator has
\* len >= 18 with length type 1 and len >= 22 with length type 0; hence
\* from one iteration of a sub-packet loop to the next, start advances by
\* at least 11.
MinimumLen ==
  /\ \A c \in Returned :
       /\ c.packet.len >= 11
       /\ c.packet.tag = "Operator" =>
            c.packet.len >= (IF LengthTypeAt(c.from) = 1 THEN 18 ELSE 22)
  /\ \A f \in OperatorFrames :
       /\ \A j \in 1..(Len(f.starts) - 1) : f.starts[j + 1] >= f.starts[j] + 11
       /\ (f.starts # <<>> /\ Len(f.sub_packets) = Len(f.starts)) =>
            f.start >= f.starts[Len(f.starts)] + 11
MinimumLenWitness ==
  /\ Decoded /\ packet.tag = "Operator"
  /\ \E c \in ReturnedOperators : c.from > 0 /\ c.packet.len = 18
  /\ \E c \in ReturnedValues : c.packet.len = 11
  /\ Len(packet.sub_packets) >= 2

\* ------------------------------------------------------------------ C29
\* C29: SeaFloor::next_step never puts two cucumbers on one cell and never
\* loses one: from a floor whose cucumbers lie inside the grid, the
\* "value overwritten" panic is never raised, every floor of the history has
\* as many East and as many South cucumbers as the current floor, and each
\* step is the East half-step (an East cucumber moves unless a cucumber of
\* the floor before the step is in its way) followed by the South half-step
\* (a South cucumber moves unless a cucumber of the floor after the East
\* half-step is in its way).
Pairs(floor) == {<<p, floor[p]>> : p \in DOMAIN floor}

HalfStepOf(floor, kind, width, depth) ==
  {<<IF q[2] = kind /\ next_pos(q[1], kind, width, depth) \notin DOMAIN floor
     THEN next_pos(q[1], kind, width, depth)
     ELSE q[1],
     q[2]>> : q \in Pairs(floor)}

FloorOf(pairs) == [p \in {q[1] : q \in pairs} |-> (CHOOSE q \in pairs : q[1] = p)[2]]

FloorAfter(h) ==
  IF h = Len(sea_floor.history) THEN sea_floor.current ELSE sea_floor.history[h + 1]

CucumbersKept ==
  /\ panic # ValueOverwritten
  /\ \A h \in 1..Len(sea_floor.history) :
       LET before == sea_floor.history[h]
           east == HalfStepOf(before, "East", sea_floor.width, sea_floor.depth)
           south == HalfStepOf(FloorOf(east), "South", sea_floor.width, sea_floor.depth)
       IN  /\ \A kind \in Cucumber :
                Cardinality(KeysOf(before, kind))
                  = Cardinality(KeysOf(sea_floor.current, kind))
           /\ Cardinality(east) = Cardinality(DOMAIN before)
           /\ Cardinality(south) = Cardinality(DOMAIN before)
           /\ Pairs(FloorAfter(h)) = south
  /\ pc = "south" =>
       /\ Pairs(cucumbers.first_half)
            = HalfStepOf(sea_floor.current, "East", sea_floor.width, sea_floor.depth)
       /\ Cardinality(DOMAIN cucumbers.first_half)
            = Cardinality(DOMAIN sea_floor.current)

\* two steps were made on a floor of three cucumbers of both kinds, and in
\* the first of them an East cucumber moved on while the East cucumber
\* behind it was blocked by it
CucumbersKeptWitness ==
  /\ Len(sea_floor.history) >= 2
  /\ Cardinality(DOMAIN sea_floor.current) = 3
  /\ \A kind \in Cucumber : KeysOf(sea_floor.history[1], kind) # {}
  /\ \E p \in KeysOf(sea_floor.history[1], "East") :
       LET q == next_pos(p, "East", sea_floor.width, sea_floor.depth) IN
       /\ q \in KeysOf(sea_floor.history[1], "East")
       /\ q \notin DOMAIN sea_floor.history[2]
       /\ p \in KeysOf(sea_floor.history[2], "East")

\* ------------------------------------------------------------------ C30
\* C30: next_step of the octopus grid flashes each point at most once per
\* step: for a map of energies 0..9, no point is taken from to_flash twice,
\* and the returned map has the positions of the argument, every energy in
\* 0..9, energy 0 at exactly the flashed points, and the returned count is
\* the number of points at 0 in the returned map.
FlashedOnce ==
  /\ \A i, j \in DOMAIN octopuses.popped :
       i # j => octopuses.popped[i] # octopuses.popped[j]
  /\ pc = "returned" =>
       /\ DOMAIN octopuses.new_step = DOMAIN octopuses.last_step
       /\ \A p \in DOMAIN octopuses.new_step : octopuses.new_step[p] \in 0..9
       /\ KeysOf(octopuses.new_step, 0) = octopuses.flashed
       /\ octopuses.flashed = {octopuses.popped[i] : i \in DOMAIN octopuses.popped}
       /\ octopuses.flashes = Cardinality(KeysOf(octopuses.new_step, 0))

\* next_step returned a map of three points of which one flashed at once,
\* one after the flash of a neighbour, and one did not flash
FlashedOnceWitness ==
  /\ pc = "returned"
  /\ Cardinality(DOMAIN octopuses.last_step) = 3
  /\ octopuses.flashes = 2
  /\ \E p \in octopuses.flashed : octopuses.last_step[p] = 9
  /\ \E p \in octopuses.flashed : octopuses.last_step[p] < 9
  /\ \E p \in DOMAIN octopuses.new_step : octopuses.new_step[p] > 0

====
